---- MODULE Spec2Model ----
(***************************************************************************)
(* Model of wireviz.Harness (src/src/wireviz/Harness.py): the connection   *)
(* registry (connect), the diagram compiler (create_graph) and the cached  *)
(* bill of materials (bom).                                                *)
(*                                                                         *)
(* Python values are modelled as follows.                                  *)
(*   - pin and wire tokens (int or str in Python) are tagged records       *)
(*     I(n) / S(s); None is NoneTok.  An int never equals a str.           *)
(*   - connector and cable names are strings; None is NoneName.            *)
(*   - a dict (self.connectors, self.cables) is the sequence of its values *)
(*     in insertion order, each value carrying its key in .name.           *)
(*   - Connector.visible_pins (a dict pin -> True) is the set of its keys. *)
(***************************************************************************)
EXTENDS Integers, Sequences, FiniteSets, TLC

\* connectors, cables, mates_pin, mates_component, additional_bom_items: the
\*   attributes of the Harness; bom_cache is self._bom
\* bom_generated: how often generate_bom has been called
\* last: the last call; graph: what it returned when it was create_graph
VARIABLES connectors, cables, mates_pin, mates_component,
          bom_cache, additional_bom_items, bom_generated,
          last, graph

vars == <<connectors, cables, mates_pin, mates_component,
          bom_cache, additional_bom_items, bom_generated, last, graph>>

(***************************************************************************)
(* Bounds of the exploration.                                              *)
(***************************************************************************)
\* connections recorded in the harness
MaxConn == 2
\* calls of generate_bom that are followed
MaxBomGen == 2
\* entries of additional_bom_items
MaxBomItems == 1
\* entries of mates_pin
MaxMates == 2

(***************************************************************************)
(* Python values.                                                          *)
(***************************************************************************)
I(n) == [k |-> "int", v |-> n]
S(s) == [k |-> "str", v |-> s]
NoneTok == [k |-> "none", v |-> 0]
NoneName == "<None>"

\* isinstance(tok, int)
IsInt(tok) == tok.k = "int"

\* Harness.py line 22
arrows == <<"<--", "<->", "-->", "<==", "<=>", "==>">>

\* x in lst
in(x, lst) == \E i \in 1..Len(lst) : lst[i] = x

\* lst.count(x)
count(lst, x) == Cardinality({i \in 1..Len(lst) : lst[i] = x})

\* lst.index(x), 0-based, for x in lst
index(lst, x) == (CHOOSE i \in 1..Len(lst) :
                     lst[i] = x /\ \A j \in 1..(i - 1) : lst[j] # x) - 1

\* name in d, for a dict d of named values
HasKey(d, name) == \E i \in 1..Len(d) : d[i].name = name

\* position of key name in dict d
KeyPos(d, name) == CHOOSE i \in 1..Len(d) : d[i].name = name

\* d[name]
Get(d, name) == d[KeyPos(d, name)]

\* d[name] = value: an existing key keeps its position, a new key is appended
Put(d, name, value) ==
    IF HasKey(d, name)
    THEN [d EXCEPT ![KeyPos(d, name)] = value]
    ELSE Append(d, value)

(***************************************************************************)
(* Connector and Cable (wireviz.DataClasses, not part of src/): the fields *)
(* Harness.py reads and the two methods it calls.                          *)
(***************************************************************************)
\* Connector(name, pins=..., pinlabels=..., loops=..., style=...); the other
\* fields at their defaults (show_name True, hide_disconnected_pins False)
Connector(name, pins, pinlabels, loops, style) ==
    [name |-> name, pins |-> pins, pinlabels |-> pinlabels, loops |-> loops,
     style |-> style, show_name |-> TRUE, hide_disconnected_pins |-> FALSE,
     visible_pins |-> {},
     ports_left |-> FALSE, ports_right |-> FALSE]

\* Cable(name, colors=..., wirelabels=...)
Cable(name, colors, wirelabels) ==
    [name |-> name, colors |-> colors, wirelabels |-> wirelabels,
     connections |-> <<>>]

\* Connection(from_name, from_port, via_port, to_name, to_port)
Connection(from_name, from_port, via_port, to_name, to_port) ==
    [from_name |-> from_name, from_port |-> from_port, via_port |-> via_port,
     to_name |-> to_name, to_port |-> to_port]

\* Cable.connect: append the connection to cable.connections
Cable_connect(cable, from_name, from_pin, via_wire, to_name, to_pin) ==
    [cable EXCEPT !.connections =
        Append(@, Connection(from_name, from_pin, via_wire, to_name, to_pin))]

\* Connector.activate_pin: visible_pins[pin] = True
activate_pin(connector, pin) ==
    [connector EXCEPT !.visible_pins = @ \cup {pin}]

\* MatePin(from_name, from_port, to_name, to_port, shape)
MatePin(from_name, from_port, to_name, to_port, shape) ==
    [from_name |-> from_name, from_port |-> from_port, to_name |-> to_name,
     to_port |-> to_port, shape |-> shape]

(***************************************************************************)
(* Harness.connect, lines 51-100.                                          *)
(***************************************************************************)
\* CheckPin with the label branch written as the wire branch of lines 87-94
\* is: a token found among the IDs is never looked up among the labels.
CheckPin_IdFirst(connector, pin) ==
    IF /\ in(pin, connector.pins) /\ in(pin, connector.pinlabels)
       /\ index(connector.pins, pin) # index(connector.pinlabels, pin)
    THEN [err |-> "pin ambiguous", pin |-> pin, rewritten |-> FALSE]
    ELSE IF in(pin, connector.pins)
    THEN [err |-> "ok", pin |-> pin, rewritten |-> FALSE]
    ELSE IF in(pin, connector.pinlabels)
    THEN IF count(connector.pinlabels, pin) > 1
         THEN [err |-> "pin duplicate", pin |-> pin, rewritten |-> FALSE]
         ELSE [err |-> "ok",
               pin |-> connector.pins[index(connector.pinlabels, pin) + 1],
               rewritten |-> TRUE]
    ELSE [err |-> "pin not found", pin |-> pin, rewritten |-> FALSE]

\* One pass of the endpoint loop for a declared connector (lines 55-71):
\* the error raised, if any, and the pin the token is rewritten to.
CheckPin(connector, pin) ==
    IF /\ in(pin, connector.pins) /\ in(pin, connector.pinlabels)
       /\ index(connector.pins, pin) # index(connector.pinlabels, pin)
    THEN [err |-> "pin ambiguous", pin |-> pin, rewritten |-> FALSE]
    ELSE IF in(pin, connector.pinlabels)
    THEN IF count(connector.pinlabels, pin) > 1
         THEN [err |-> "pin duplicate", pin |-> pin, rewritten |-> FALSE]
         ELSE LET p == connector.pins[index(connector.pinlabels, pin) + 1]
              IN  [err |-> IF in(p, connector.pins) THEN "ok" ELSE "pin not found",
                   pin |-> p, rewritten |-> TRUE]
    ELSE [err |-> IF in(pin, connector.pins) THEN "ok" ELSE "pin not found",
          pin |-> pin, rewritten |-> FALSE]

\* The pass of the loop for one (name, pin) of the zip (lines 54-71): nothing
\* happens for None or an undeclared name.
CheckEndpoint(cs, name, pin) ==
    IF name # NoneName /\ HasKey(cs, name)
    THEN CheckPin(Get(cs, name), pin)
    ELSE [err |-> "ok", pin |-> pin, rewritten |-> FALSE]

\* The whole endpoint loop (lines 53-71).  The zip holds the tokens as passed;
\* a rewritten pin is assigned to from_pin if name == from_name and to to_pin
\* if name == to_name (lines 66-69), in both passes.
ResolveEndpoints(cs, from_name, from_pin, to_name, to_pin) ==
    LET r1 == CheckEndpoint(cs, from_name, from_pin)
        from1 == IF r1.rewritten THEN r1.pin ELSE from_pin
        to1 == IF r1.rewritten /\ from_name = to_name THEN r1.pin ELSE to_pin
        r2 == CheckEndpoint(cs, to_name, to_pin)
        from2 == IF r2.rewritten /\ to_name = from_name THEN r2.pin ELSE from1
        to2 == IF r2.rewritten THEN r2.pin ELSE to1
    IN  IF r1.err # "ok"
        THEN [err |-> r1.err, from_pin |-> from_pin, to_pin |-> to_pin]
        ELSE IF r2.err # "ok"
        THEN [err |-> r2.err, from_pin |-> from1, to_pin |-> to1]
        ELSE [err |-> "ok", from_pin |-> from2, to_pin |-> to2]

\* Resolution of via_wire on a declared cable (lines 81-94).
ResolveWire(cable, via_wire) ==
    IF /\ in(via_wire, cable.colors) /\ in(via_wire, cable.wirelabels)
       /\ index(cable.colors, via_wire) # index(cable.wirelabels, via_wire)
    THEN [err |-> "wire ambiguous", via_wire |-> via_wire]
    ELSE IF in(via_wire, cable.colors)
    THEN IF count(cable.colors, via_wire) > 1
         THEN [err |-> "wire duplicate", via_wire |-> via_wire]
         ELSE [err |-> "ok", via_wire |-> I(index(cable.colors, via_wire) + 1)]
    ELSE IF in(via_wire, cable.wirelabels)
    THEN IF count(cable.wirelabels, via_wire) > 1
         THEN [err |-> "wire duplicate", via_wire |-> via_wire]
         ELSE [err |-> "ok", via_wire |-> I(index(cable.wirelabels, via_wire) + 1)]
    ELSE [err |-> "ok", via_wire |-> via_wire]

\* The recording steps (lines 96-100), reached with the resolved tokens.
\* self.cables[via_name] raises KeyError for an undeclared cable.
Record(cs, cbs, from_name, from_pin, via_name, via_wire, to_name, to_pin) ==
    IF ~HasKey(cbs, via_name)
    THEN [err |-> "KeyError", connectors |-> cs, cables |-> cbs]
    ELSE LET cbs1 == Put(cbs, via_name,
                         Cable_connect(Get(cbs, via_name), from_name, from_pin,
                                       via_wire, to_name, to_pin))
             cs1 == IF HasKey(cs, from_name)
                    THEN Put(cs, from_name, activate_pin(Get(cs, from_name), from_pin))
                    ELSE cs
             cs2 == IF HasKey(cs1, to_name)
                    THEN Put(cs1, to_name, activate_pin(Get(cs1, to_name), to_pin))
                    ELSE cs1
         IN  [err |-> "ok", connectors |-> cs2, cables |-> cbs1]

\* Via with the from pin activated before the wire is resolved.
Via_ActivateEarly(cs, cbs, from_name, from_pin, via_name, via_wire, to_name, to_pin) ==
    LET cs1 == IF HasKey(cs, from_name)
               THEN Put(cs, from_name, activate_pin(Get(cs, from_name), from_pin))
               ELSE cs
    IN  IF in(via_name, arrows)
        THEN [err |-> "AttributeError", connectors |-> cs1, cables |-> cbs]
        ELSE IF HasKey(cbs, via_name)
        THEN LET w == ResolveWire(Get(cbs, via_name), via_wire)
             IN  IF w.err # "ok"
                 THEN [err |-> w.err, connectors |-> cs1, cables |-> cbs]
                 ELSE Record(cs1, cbs, from_name, from_pin, via_name, w.via_wire,
                             to_name, to_pin)
        ELSE Record(cs1, cbs, from_name, from_pin, via_name, via_wire,
                    to_name, to_pin)

\* The branch on via_name (lines 74-94) and what follows it.  An arrow glyph
\* holds '-' or '=', so lines 76/78 evaluate self.mates, an attribute
\* __init__ never sets: AttributeError.
Via(cs, cbs, from_name, from_pin, via_name, via_wire, to_name, to_pin) ==
    IF in(via_name, arrows)
    THEN [err |-> "AttributeError", connectors |-> cs, cables |-> cbs]
    ELSE IF HasKey(cbs, via_name)
    THEN LET w == ResolveWire(Get(cbs, via_name), via_wire)
         IN  IF w.err # "ok"
             THEN [err |-> w.err, connectors |-> cs, cables |-> cbs]
             ELSE Record(cs, cbs, from_name, from_pin, via_name, w.via_wire,
                         to_name, to_pin)
    ELSE Record(cs, cbs, from_name, from_pin, via_name, via_wire, to_name, to_pin)

\* connect as a function of the harness and the arguments: the exception
\* raised ("ok" for none) and the connectors and cables it leaves.
ConnectOutcome(cs, cbs, from_name, from_pin, via_name, via_wire, to_name, to_pin) ==
    LET e == ResolveEndpoints(cs, from_name, from_pin, to_name, to_pin)
    IN  IF e.err # "ok"
        THEN [err |-> e.err, connectors |-> cs, cables |-> cbs]
        ELSE Via(cs, cbs, from_name, e.from_pin, via_name, via_wire,
                 to_name, e.to_pin)

(***************************************************************************)
(* Harness.create_graph, lines 102-367.  The graph is dot.body: the node   *)
(* and edge statements in the order they are issued, each edge with the    *)
(* edge attributes (dot.attr('edge', ...)) in force when it is issued.     *)
(* The HTML of the labels is left out but for the port cells of a          *)
(* connector node and the color bars of a cable node.                      *)
(***************************************************************************)
\* a port of a node: 'p1r' is Port("p", I(1), "r"), 'w2' is Port("w", I(2), "")
Port(prefix, tok, side) == [prefix |-> prefix, tok |-> tok, side |-> side]
NoPort == Port("", NoneTok, "")

\* an edge end 'name:port:compass'
End(name, port, compass) == [name |-> name, port |-> port, compass |-> compass]
NoEnd == End("", NoPort, "")

\* the edge attributes: line 116 sets style bold
Attr(color, style, dir) == [color |-> color, style |-> style, dir |-> dir]
DefaultAttr == Attr(<<>>, "bold", "")

\* dot.node(name, ...)
NodeStmt(name, shape, ports, bars) ==
    [kind |-> "node", name |-> name, shape |-> shape, ports |-> ports,
     bars |-> bars, tail |-> NoEnd, head |-> NoEnd, attr |-> DefaultAttr]

\* dot.edge(tail, head)
EdgeStmt(tail, head, attr) ==
    [kind |-> "edge", name |-> "", shape |-> "", ports |-> {}, bars |-> <<>>,
     tail |-> tail, head |-> head, attr |-> attr]

\* the color codes a color token is made of, two letters each (wv_colors)
Components(color) ==
    CASE color = S("RD") -> <<"RD">>
      [] color = S("BK") -> <<"BK">>
      [] color = S("GN") -> <<"GN">>
      [] color = S("RDBK") -> <<"RD", "BK">>
      [] OTHER -> <<>>

\* wv_colors.get_color_hex(color, pad): one stripe per component; with pad
\* a single-color token is repeated to the width of a two-color one
get_color_hex(color, pad) ==
    LET c == Components(color)
    IN  IF pad /\ Len(c) = 1 THEN c \o c ELSE c

\* the connections of all cables, in the order lines 120-121 visit them
RECURSIVE AllConnections(_)
AllConnections(cbs) ==
    IF cbs = <<>> THEN <<>>
    ELSE Head(cbs).connections \o AllConnections(Tail(cbs))

\* lines 122-125 for the connections from the i-th on: ports_right of the
\* from connector, ports_left of the to connector; self.connectors[name]
\* raises KeyError for an undeclared name
RECURSIVE PortSides(_, _, _)
PortSides(cs, conns, i) ==
    IF i > Len(conns) THEN [err |-> "ok", connectors |-> cs]
    ELSE LET c == conns[i]
             fromBad == c.from_port # NoneTok /\ ~HasKey(cs, c.from_name)
             cs1 == IF c.from_port # NoneTok /\ ~fromBad
                    THEN Put(cs, c.from_name,
                             [Get(cs, c.from_name) EXCEPT !.ports_right = TRUE])
                    ELSE cs
             toBad == c.to_port # NoneTok /\ ~HasKey(cs1, c.to_name)
             cs2 == IF c.to_port # NoneTok /\ ~toBad
                    THEN Put(cs1, c.to_name,
                             [Get(cs1, c.to_name) EXCEPT !.ports_left = TRUE])
                    ELSE cs1
         IN  IF fromBad THEN [err |-> "KeyError", connectors |-> cs]
             ELSE IF toBad THEN [err |-> "KeyError", connectors |-> cs1]
             ELSE PortSides(cs2, conns, i + 1)

\* lines 126-130 for the mates from the i-th on
RECURSIVE MateSides(_, _, _)
MateSides(cs, mates, i) ==
    IF i > Len(mates) THEN [err |-> "ok", connectors |-> cs]
    ELSE LET m == mates[i]
         IN  IF ~HasKey(cs, m.from_name)
             THEN [err |-> "KeyError", connectors |-> cs]
             ELSE LET cs1 == Put(cs, m.from_name,
                                 activate_pin([Get(cs, m.from_name)
                                                 EXCEPT !.ports_right = TRUE],
                                              m.from_port))
                  IN  IF ~HasKey(cs1, m.to_name)
                      THEN [err |-> "KeyError", connectors |-> cs1]
                      ELSE MateSides(
                               Put(cs1, m.to_name,
                                   activate_pin([Get(cs1, m.to_name)
                                                   EXCEPT !.ports_left = TRUE],
                                                m.to_port)),
                               mates, i + 1)

\* the port-side pass, lines 120-130
PortSidePass(cs, cbs, mates) ==
    LET r == PortSides(cs, AllConnections(cbs), 1)
    IN  IF r.err # "ok" THEN r ELSE MateSides(r.connectors, mates, 1)

\* the port cells of a connector node, lines 150-175
PinCells(connector) ==
    IF connector.style = "simple" THEN {}
    ELSE LET shown == {i \in 1..Len(connector.pins) :
                          ~(/\ connector.hide_disconnected_pins
                            /\ connector.pins[i] \notin connector.visible_pins)}
         IN  (IF connector.ports_left
              THEN {Port("p", connector.pins[i], "l") : i \in shown} ELSE {})
             \cup (IF connector.ports_right
                   THEN {Port("p", connector.pins[i], "r") : i \in shown} ELSE {})

\* LoopSide with the two tests in the other order
LoopSide_RightFirst(connector) ==
    IF connector.ports_right THEN "r"
    ELSE IF connector.ports_left THEN "l"
    ELSE "none"

\* the side the loops of a connector are drawn on, lines 186-193
LoopSide(connector) ==
    IF connector.ports_left THEN "l"
    ELSE IF connector.ports_right THEN "r"
    ELSE "none"

\* the compass point of a loop side, lines 188 and 191
LoopDir(side) == IF side = "l" THEN "w" ELSE "e"

LoopAttr == Attr(<<"#000000", "#ffffff", "#000000">>, "bold", "")

\* the statements of one connector, lines 182-196: its node, then one edge
\* per loop
ConnectorStmts(connector) ==
    <<NodeStmt(connector.name, "none", PinCells(connector), <<>>)>>
    \o [i \in 1..Len(connector.loops) |->
           EdgeStmt(End(connector.name,
                        Port("p", connector.loops[i][1], LoopSide(connector)),
                        LoopDir(LoopSide(connector))),
                    End(connector.name,
                        Port("p", connector.loops[i][2], LoopSide(connector)),
                        LoopDir(LoopSide(connector))),
                    LoopAttr)]

\* the connector loop, lines 132-196, from the i-th connector on
RECURSIVE ConnectorLoop(_, _)
ConnectorLoop(cs, i) ==
    IF i > Len(cs) THEN [err |-> "ok", body |-> <<>>]
    ELSE IF Len(cs[i].loops) > 0 /\ LoopSide(cs[i]) = "none"
    THEN [err |-> "No side for loops", body |-> <<>>]
    ELSE LET rest == ConnectorLoop(cs, i + 1)
         IN  IF rest.err # "ok" THEN rest
             ELSE [err |-> "ok", body |-> ConnectorStmts(cs[i]) \o rest.body]

\* line 201: some wire of some cable of the harness has more than one color
Pad(cbs) ==
    \E i \in 1..Len(cbs) : \E j \in 1..Len(cbs[i].colors) :
        Len(cbs[i].colors[j].v) > 2

\* the color bar of one wire, line 259
Bar(color, pad) == <<"#000000">> \o get_color_hex(color, pad) \o <<"#000000">>

\* cable.colors[via_port - 1] of line 311 raises IndexError
WireIndexBad(cable, via) ==
    via.v - 1 >= Len(cable.colors) \/ via.v - 1 < 0 - Len(cable.colors)

\* cable.colors[via_port - 1] with Python's negative indices
ColorAt(cable, via) ==
    IF via.v - 1 >= 0 THEN cable.colors[via.v]
    ELSE cable.colors[Len(cable.colors) + via.v]

\* line 324 / 340: pins.index(port) raises ValueError
PinLabelBad(connector, port) ==
    /\ connector.show_name
    /\ connector.pinlabels # <<>>
    /\ ~in(port, connector.pins)

\* the error one connection raises in lines 309-346, "ok" for none
ConnectionErr(cs, cable, c) ==
    IF IsInt(c.via_port) /\ WireIndexBad(cable, c.via_port) THEN "IndexError"
    ELSE IF c.from_port # NoneTok /\ ~HasKey(cs, c.from_name) THEN "KeyError"
    ELSE IF c.from_port # NoneTok /\ PinLabelBad(Get(cs, c.from_name), c.from_port)
    THEN "ValueError"
    ELSE IF c.to_port # NoneTok /\ ~HasKey(cs, c.to_name) THEN "KeyError"
    ELSE IF c.to_port # NoneTok /\ PinLabelBad(Get(cs, c.to_name), c.to_port)
    THEN "ValueError"
    ELSE "ok"

\* the edge attributes of a connection, lines 310-314 (no cable has a shield
\* color)
WireAttr(cable, c, pad) ==
    IF IsInt(c.via_port)
    THEN Attr(<<"#000000">> \o get_color_hex(ColorAt(cable, c.via_port), pad)
                  \o <<"#000000">>, "bold", "")
    ELSE Attr(<<"#000000">>, "bold", "")

\* ConnectionEdges with line 331 an elif of line 315
ConnectionEdges_Elif(cs, cable, c, pad) ==
    IF c.from_port # NoneTok
    THEN <<EdgeStmt(End(c.from_name,
                        IF Get(cs, c.from_name).style # "simple"
                        THEN Port("p", c.from_port, "r") ELSE NoPort, "e"),
                    End(cable.name, Port("w", c.via_port, ""), "w"),
                    WireAttr(cable, c, pad))>>
    ELSE IF c.to_port # NoneTok
    THEN <<EdgeStmt(End(cable.name, Port("w", c.via_port, ""), "e"),
                    End(c.to_name,
                        IF Get(cs, c.to_name).style # "simple"
                        THEN Port("p", c.to_port, "l") ELSE NoPort, "w"),
                    WireAttr(cable, c, pad))>>
    ELSE <<>>

\* the edges of one connection, lines 315-336
ConnectionEdges(cs, cable, c, pad) ==
    (IF c.from_port # NoneTok
     THEN <<EdgeStmt(End(c.from_name,
                         IF Get(cs, c.from_name).style # "simple"
                         THEN Port("p", c.from_port, "r") ELSE NoPort, "e"),
                     End(cable.name, Port("w", c.via_port, ""), "w"),
                     WireAttr(cable, c, pad))>>
     ELSE <<>>)
    \o (IF c.to_port # NoneTok
        THEN <<EdgeStmt(End(cable.name, Port("w", c.via_port, ""), "e"),
                        End(c.to_name,
                            IF Get(cs, c.to_name).style # "simple"
                            THEN Port("p", c.to_port, "l") ELSE NoPort, "w"),
                        WireAttr(cable, c, pad))>>
        ELSE <<>>)

\* lines 309-346 for the connections of a cable from the j-th on
RECURSIVE ConnectionLoop(_, _, _, _)
ConnectionLoop(cs, cable, j, pad) ==
    IF j > Len(cable.connections) THEN [err |-> "ok", body |-> <<>>]
    ELSE LET c == cable.connections[j]
             e == ConnectionErr(cs, cable, c)
         IN  IF e # "ok" THEN [err |-> e, body |-> <<>>]
             ELSE LET rest == ConnectionLoop(cs, cable, j + 1, pad)
                  IN  IF rest.err # "ok" THEN rest
                      ELSE [err |-> "ok",
                            body |-> ConnectionEdges(cs, cable, c, pad) \o rest.body]

\* the node of a cable, lines 240-267 and 349: one color bar per wire
CableNode(cable, pad) ==
    NodeStmt(cable.name, "box", {},
             [i \in 1..Len(cable.colors) |-> Bar(cable.colors[i], pad)])

\* the cable loop, lines 203-350, from the i-th cable on: the edges of a
\* cable come before its node
RECURSIVE CableLoop(_, _, _, _)
CableLoop(cs, cbs, i, pad) ==
    IF i > Len(cbs) THEN [err |-> "ok", body |-> <<>>]
    ELSE LET edges == ConnectionLoop(cs, cbs[i], 1, pad)
         IN  IF edges.err # "ok" THEN edges
             ELSE LET rest == CableLoop(cs, cbs, i + 1, pad)
                  IN  IF rest.err # "ok" THEN rest
                      ELSE [err |-> "ok",
                            body |-> edges.body \o <<CableNode(cbs[i], pad)>>
                                         \o rest.body]

\* the direction of a mate edge, lines 353-358; dir keeps the value of the
\* previous pass for another shape, and is unbound in the first pass
MateDir(shape, prev) ==
    IF shape = "<--" THEN "back"
    ELSE IF shape = "-->" THEN "forward"
    ELSE IF shape = "<->" THEN "both"
    ELSE prev

\* the mate loop, lines 352-365, from the i-th mate on
RECURSIVE MateLoop(_, _, _, _)
MateLoop(cs, mates, i, prev) ==
    IF i > Len(mates) THEN [err |-> "ok", body |-> <<>>]
    ELSE LET m == mates[i]
             dir == MateDir(m.shape, prev)
         IN  IF dir = "unbound" THEN [err |-> "UnboundLocalError", body |-> <<>>]
             ELSE LET rest == MateLoop(cs, mates, i + 1, dir)
                  IN  IF rest.err # "ok" THEN rest
                      ELSE [err |-> "ok",
                            body |-> <<EdgeStmt(
                                End(m.from_name,
                                    IF Get(cs, m.from_name).style # "simple"
                                    THEN Port("p", m.from_port, "r") ELSE NoPort,
                                    "e"),
                                End(m.to_name,
                                    IF Get(cs, m.to_name).style # "simple"
                                    THEN Port("p", m.to_port, "l") ELSE NoPort,
                                    "w"),
                                Attr(<<"#000000">>, "dashed", dir))>> \o rest.body]

\* create_graph as a function of the harness: the exception raised ("ok" for
\* none), the connectors as the port-side pass leaves them, and dot.body
CreateGraph(cs, cbs, mates) ==
    LET p == PortSidePass(cs, cbs, mates)
        n == ConnectorLoop(p.connectors, 1)
        w == CableLoop(p.connectors, cbs, 1, Pad(cbs))
        m == MateLoop(p.connectors, mates, 1, "unbound")
    IN  IF p.err # "ok"
        THEN [err |-> p.err, connectors |-> p.connectors, body |-> <<>>]
        ELSE IF n.err # "ok"
        THEN [err |-> n.err, connectors |-> p.connectors, body |-> <<>>]
        ELSE IF w.err # "ok"
        THEN [err |-> w.err, connectors |-> p.connectors, body |-> <<>>]
        ELSE IF m.err # "ok"
        THEN [err |-> m.err, connectors |-> p.connectors, body |-> <<>>]
        ELSE [err |-> "ok", connectors |-> p.connectors,
              body |-> n.body \o w.body \o m.body]

(***************************************************************************)
(* Harness.bom, lines 401-404, and wv_bom.generate_bom.                    *)
(***************************************************************************)
\* a row of the bill of materials
BomRow(description, designator) ==
    [description |-> description, qty |-> 1, designator |-> designator]

\* generate_bom(harness): the rows of the connectors, of the cables and of
\* the additional items, in declaration order
generate_bom(cs, cbs, items) ==
    [i \in 1..Len(cs) |-> BomRow("Connector", cs[i].name)]
    \o [i \in 1..Len(cbs) |-> BomRow("Cable", cbs[i].name)]
    \o [i \in 1..Len(items) |-> BomRow(items[i], "")]

\* not self._bom (line 402): an empty list is falsy
CacheIsFalsy(cache) == cache = <<>>

(***************************************************************************)
(* The state machine.  last is the last call: its name, the exception it   *)
(* raised ("ok" for none) and, for connect, its arguments.  graph is what  *)
(* the last call returned when it was create_graph.                        *)
(***************************************************************************)
Call(op, err, from_name, from_pin, via_name, via_wire, to_name, to_pin) ==
    [op |-> op, err |-> err, from_name |-> from_name, from_pin |-> from_pin,
     via_name |-> via_name, via_wire |-> via_wire, to_name |-> to_name,
     to_pin |-> to_pin]

PlainCall(op, err) ==
    Call(op, err, NoneName, NoneTok, NoneName, NoneTok, NoneName, NoneTok)

NoGraph == [err |-> "none", body |-> <<>>]

\* Harness.__init__ (lines 26-34)
Init ==
    /\ connectors = <<>>
    /\ cables = <<>>
    /\ mates_pin = <<>>
    /\ mates_component = <<>>
    /\ bom_cache = <<>>
    /\ additional_bom_items = <<>>
    /\ bom_generated = 0
    /\ last = PlainCall("__init__", "ok")
    /\ graph = NoGraph

\* add_connector (lines 36-37)
add_connector(name, pins, pinlabels, loops, style) ==
    /\ connectors' = Put(connectors, name,
                         Connector(name, pins, pinlabels, loops, style))
    /\ last' = PlainCall("add_connector", "ok")
    /\ graph' = NoGraph
    /\ UNCHANGED <<cables, mates_pin, mates_component, bom_cache,
                   additional_bom_items, bom_generated>>

\* add_cable (lines 39-40)
add_cable(name, colors, wirelabels) ==
    /\ cables' = Put(cables, name, Cable(name, colors, wirelabels))
    /\ last' = PlainCall("add_cable", "ok")
    /\ graph' = NoGraph
    /\ UNCHANGED <<connectors, mates_pin, mates_component, bom_cache,
                   additional_bom_items, bom_generated>>

\* connect (lines 51-100)
connect(from_name, from_pin, via_name, via_wire, to_name, to_pin) ==
    LET r == ConnectOutcome(connectors, cables, from_name, from_pin,
                            via_name, via_wire, to_name, to_pin)
    IN  /\ r.err = "ok" => Len(AllConnections(cables)) < MaxConn
        /\ connectors' = r.connectors
        /\ cables' = r.cables
        /\ last' = Call("connect", r.err, from_name, from_pin, via_name,
                        via_wire, to_name, to_pin)
        /\ graph' = NoGraph
        /\ UNCHANGED <<mates_pin, mates_component, bom_cache,
                       additional_bom_items, bom_generated>>

\* create_graph (lines 102-367)
create_graph ==
    LET r == CreateGraph(connectors, cables, mates_pin)
    IN  /\ connectors' = r.connectors
        /\ last' = PlainCall("create_graph", r.err)
        /\ graph' = [err |-> r.err, body |-> r.body]
        /\ UNCHANGED <<cables, mates_pin, mates_component, bom_cache,
                       additional_bom_items, bom_generated>>

\* add_bom_item (lines 48-49)
add_bom_item(item) ==
    /\ Len(additional_bom_items) < MaxBomItems
    /\ additional_bom_items' = Append(additional_bom_items, item)
    /\ last' = PlainCall("add_bom_item", "ok")
    /\ graph' = NoGraph
    /\ UNCHANGED <<connectors, cables, mates_pin, mates_component, bom_cache,
                   bom_generated>>

\* bom (lines 401-404); bom_generated counts the calls of generate_bom
bom ==
    /\ IF CacheIsFalsy(bom_cache)
       THEN /\ bom_generated < MaxBomGen
            /\ bom_cache' = generate_bom(connectors, cables, additional_bom_items)
            /\ bom_generated' = bom_generated + 1
       ELSE UNCHANGED <<bom_cache, bom_generated>>
    /\ last' = PlainCall("bom", "ok")
    /\ graph' = NoGraph
    /\ UNCHANGED <<connectors, cables, mates_pin, mates_component,
                   additional_bom_items>>

\* add_mate_pin (lines 42-43): the name MatePin is not among the imports of
\* lines 11-12, so evaluating it raises NameError before anything is appended
\* (last holds the glyph in the place of via_name)
add_mate_pin(from_name, from_port, to_name, to_port, shape) ==
    /\ last' = Call("add_mate_pin", "NameError", from_name, from_port, shape,
                    NoneTok, to_name, to_port)
    /\ graph' = NoGraph
    /\ UNCHANGED <<connectors, cables, mates_pin, mates_component, bom_cache,
                   additional_bom_items, bom_generated>>

\* The front end hands over a harness with its mates (spec, "Consumed from
\* front-end collaborator"): harness.mates_pin.append(MatePin(...)), the
\* statement of line 43 in a module that has the name MatePin.
append_mate_pin(from_name, from_port, to_name, to_port, shape) ==
    /\ Len(mates_pin) < MaxMates
    /\ mates_pin' = Append(mates_pin,
                           MatePin(from_name, from_port, to_name, to_port, shape))
    /\ last' = Call("append_mate_pin", "ok", from_name, from_port, shape,
                    NoneTok, to_name, to_port)
    /\ graph' = NoGraph
    /\ UNCHANGED <<connectors, cables, mates_component, bom_cache,
                   additional_bom_items, bom_generated>>

(***************************************************************************)
(* The inputs the calls are drawn from.                                    *)
(***************************************************************************)
Pins12 == <<I(1), I(2)>>
NoLoops == <<>>
ArrowSet == {arrows[i] : i \in 1..Len(arrows)}

\* Connectors: name, pins, pinlabels, loops, style.
PlainA == <<"A", Pins12, <<>>, NoLoops, "full">>
PlainB == <<"B", Pins12, <<>>, NoLoops, "full">>
LabelledA ==
    {\* "VCC" labels pin 2; 1 is the ID and the label of pin 1
     <<"A", Pins12, <<I(1), S("VCC")>>, NoLoops, "full">>,
     \* "VCC" labels pin 1; 1 is the ID of pin 1 and the label of pin 2
     <<"A", Pins12, <<S("VCC"), I(1)>>, NoLoops, "full">>,
     \* "VCC" labels both pins
     <<"A", Pins12, <<S("VCC"), S("VCC")>>, NoLoops, "full">>,
     \* 1 is the ID of pin 1 and labels both pins
     <<"A", Pins12, <<I(1), I(1)>>, NoLoops, "full">>}

\* Cables: name, colors, wirelabels.
PlainW1 == <<"W1", <<S("RD"), S("BK")>>, <<>>>>
LabelledW1 ==
    {\* "RD" colors both wires, "SIG" labels both wires
     <<"W1", <<S("RD"), S("RD")>>, <<S("SIG"), S("SIG")>>>>,
     \* "RD" colors wire 1 and labels wire 2; "SIG" labels wire 1
     <<"W1", <<S("RD"), S("BK")>>, <<S("SIG"), S("RD")>>>>,
     \* "RD" colors wire 1 and labels both wires; "SIG" labels nothing
     <<"W1", <<S("RD"), S("BK")>>, <<S("RD"), S("RD")>>>>,
     \* "SIG" labels wire 2, "RD" colors and labels wire 1
     <<"W1", <<S("RD"), S("BK")>>, <<S("RD"), S("SIG")>>>>}

NoEndpoint == <<NoneName, NoneTok>>
WireTokens == {I(1), I(3), S("RD"), S("SIG")}

\* connect calls: from endpoint, via_name, via_wire, to endpoint
PinCalls ==
    {<<"A", I(1)>>, <<"A", S("VCC")>>, NoEndpoint} \X {"W1"} \X {I(1)}
        \X {<<"A", I(1)>>, <<"B", I(1)>>, NoEndpoint}
WireCalls ==
    {<<"A", I(1)>>} \X {"W1"} \X WireTokens \X {<<"B", I(1)>>}

Declare(cdecls, wdecls) ==
    \/ \E d \in cdecls : add_connector(d[1], d[2], d[3], d[4], d[5])
    \/ \E d \in wdecls : add_cable(d[1], d[2], d[3])

Connect(calls) ==
    \E c \in calls : connect(c[1][1], c[1][2], c[2], c[3], c[4][1], c[4][2])

\* Pin tokens: every kind of connector, one cable.
NextPins ==
    \/ Declare({PlainA, PlainB} \cup LabelledA, {PlainW1})
    \/ Connect(PinCalls)

SpecPins == Init /\ [][NextPins]_vars

\* Wire tokens: plain connectors, every kind of cable.
NextWires ==
    \/ Declare({PlainA, PlainB}, {PlainW1} \cup LabelledW1)
    \/ Connect(WireCalls)

SpecWires == Init /\ [][NextWires]_vars

\* Every way connect can fail: a connector and a cable of each faulty kind.
FaultyA ==
    {<<"A", Pins12, <<S("VCC"), I(1)>>, NoLoops, "full">>,
     <<"A", Pins12, <<I(1), I(1)>>, NoLoops, "full">>}
FaultyW1 ==
    {<<"W1", <<S("RD"), S("RD")>>, <<S("SIG"), S("SIG")>>>>,
     <<"W1", <<S("RD"), S("BK")>>, <<S("SIG"), S("RD")>>>>}
FailCalls ==
    ({<<"A", I(1)>>, <<"A", S("VCC")>>} \X {"W1"} \X {I(1), S("RD")}
        \X {<<"A", I(1)>>, <<"B", I(1)>>})
    \cup ({<<"A", S("VCC")>>} \X ArrowSet \X {NoneTok} \X {<<"B", I(1)>>})

Next ==
    \/ Declare({PlainB} \cup FaultyA, FaultyW1)
    \/ Connect(FailCalls)

Spec == Init /\ [][Next]_vars

\* The diagram: a connector with and without a loop, a connector of style
\* simple, a single-color and a striped cable, connections with and without
\* a None end.
LoopA == <<"A", Pins12, <<>>, <<<<I(1), I(2)>>>>, "full">>
SimpleB == <<"B", Pins12, <<>>, NoLoops, "simple">>
StripedW2 == <<"W2", <<S("RDBK"), S("GN")>>, <<>>>>
GraphCalls ==
    {<<<<"A", I(1)>>, "W1", I(1), <<"B", I(1)>>>>,
     <<<<"A", I(2)>>, "W1", I(2), <<"B", I(2)>>>>,
     <<NoEndpoint, "W2", I(1), <<"A", I(1)>>>>}

NextGraph ==
    \/ Declare({PlainA, LoopA, SimpleB}, {PlainW1, StripedW2})
    \/ Connect(GraphCalls)
    \/ create_graph

SpecGraph == Init /\ [][NextGraph]_vars

\* The bill of materials: a harness that grows between the calls of bom.
NextBom ==
    \/ Declare({PlainA, PlainB}, {PlainW1})
    \/ Connect({<<<<"A", I(1)>>, "W1", I(1), <<"B", I(1)>>>>})
    \/ add_bom_item("Heatshrink")
    \/ bom

SpecBom == Init /\ [][NextBom]_vars

\* The mates: two connectors, one of style simple, a cable, and pin-level
\* mates of every glyph from pin 1 of A to pin 1 of B.
NextMates ==
    \/ Declare({PlainA, SimpleB}, {PlainW1})
    \/ \E g \in ArrowSet : add_mate_pin("A", I(1), "B", I(1), g)
    \/ \E g \in ArrowSet : append_mate_pin("A", I(1), "B", I(1), g)
    \/ create_graph

SpecMates == Init /\ [][NextMates]_vars

(***************************************************************************)
(* Claims about connect.                                                   *)
(***************************************************************************)
PinErrors == {"pin ambiguous", "pin duplicate", "pin not found"}
WireErrors == {"wire ambiguous", "wire duplicate"}

\* the positions of a connector a pin token designates: where it is the ID
\* and wherever it is the label
PinPositions(connector, tok) ==
    {i \in 1..Len(connector.pins) : connector.pins[i] = tok}
    \cup {i \in 1..Len(connector.pinlabels) : connector.pinlabels[i] = tok}

\* the positions of a cable a wire token designates: wherever it is the color
\* and wherever it is the label
WirePositions(cable, tok) ==
    {i \in 1..Len(cable.colors) : cable.colors[i] = tok}
    \cup {i \in 1..Len(cable.wirelabels) : cable.wirelabels[i] = tok}

\* the pin ID a token stands for: itself when it is an ID, else the ID at the
\* position of the label
PinIdOf(connector, tok) ==
    IF in(tok, connector.pins) THEN tok
    ELSE connector.pins[CHOOSE i \in 1..Len(connector.pinlabels) :
                            connector.pinlabels[i] = tok]

LastConnection(cable) == cable.connections[Len(cable.connections)]

Declared(name) == HasKey(connectors, name)

\* the last call was a connect that named only declared connectors
ConnectedDeclared ==
    /\ last.op = "connect"
    /\ Declared(last.from_name)
    /\ Declared(last.to_name)

\* C1: a successful connect between declared connectors records and
\* activates, for each endpoint on its own, the pin ID its token stands for:
\* the token itself when it is an ID, the ID at the label's position when it
\* is a label; also when both endpoints are on the same connector.
C1_EndpointsResolvedIndependently ==
    (ConnectedDeclared /\ last.err = "ok") =>
        LET c == LastConnection(Get(cables, last.via_name))
            f == PinIdOf(Get(connectors, last.from_name), last.from_pin)
            t == PinIdOf(Get(connectors, last.to_name), last.to_pin)
        IN  /\ c.from_name = last.from_name /\ c.from_port = f
            /\ c.to_name = last.to_name /\ c.to_port = t
            /\ f \in Get(connectors, last.from_name).visible_pins
            /\ t \in Get(connectors, last.to_name).visible_pins

\* the endpoint is not checked, or its token designates exactly one position
EndpointDesignatesOne(name, tok) ==
    Declared(name) => Cardinality(PinPositions(Get(connectors, name), tok)) = 1

\* C2: connect gets past pin validation exactly when the pin token of every
\* endpoint on a declared connector designates exactly one pin position,
\* counting its position in pins and every position in pinlabels.
C2_PinValidation ==
    last.op = "connect" =>
        (last.err \notin PinErrors <=>
            /\ EndpointDesignatesOne(last.from_name, last.from_pin)
            /\ EndpointDesignatesOne(last.to_name, last.to_pin))

\* a connect failed on a token that is the ID of pin 1 and labels both pins
C2_Witness ==
    /\ last.op = "connect" /\ last.err = "pin duplicate"
    /\ Declared(last.from_name)
    /\ Cardinality(PinPositions(Get(connectors, last.from_name), last.from_pin)) = 2
    /\ in(last.from_pin, Get(connectors, last.from_name).pins)

\* C3: connect through an arrow glyph with valid endpoint pins completes
\* without error and records one mate, pin-level for the '-' glyphs and
\* component-level for the '=' glyphs.
DashGlyphs == {"<--", "<->", "-->"}
C3_MateRecorded ==
    (/\ ConnectedDeclared /\ in(last.via_name, arrows)
     /\ EndpointDesignatesOne(last.from_name, last.from_pin)
     /\ EndpointDesignatesOne(last.to_name, last.to_pin)) =>
        /\ last.err = "ok"
        /\ IF last.via_name \in DashGlyphs
           THEN Len(mates_pin) > 0 ELSE Len(mates_component) > 0

\* C4: a connect that fails leaves the connectors, the cables and the mates
\* as they were.
C4_FailureChangesNothing ==
    [][(last'.op = "connect" /\ last'.err # "ok") =>
            /\ connectors' = connectors
            /\ cables' = cables
            /\ mates_pin' = mates_pin
            /\ mates_component' = mates_component]_vars

\* a connect failed on the wire after both endpoints, one of them given by
\* its label, had passed
C4_Witness ==
    /\ ConnectedDeclared /\ last.err \in WireErrors
    /\ last.from_pin = S("VCC")

\* the via_port that stands for the shield
ShieldSentinel == S("s")

\* C5: every recorded connection goes through a wire 1..wirecount of its
\* cable, or through the shield.
C5_ViaInRange ==
    \A i \in 1..Len(cables) : \A j \in 1..Len(cables[i].connections) :
        LET via == cables[i].connections[j].via_port
        IN  \/ IsInt(via) /\ via.v \in 1..Len(cables[i].colors)
            \/ via = ShieldSentinel

\* C6: connect through a declared cable fails when the wire token designates
\* more than one wire position, counting colors and wirelabels, and records
\* wire p + 1 when it designates the one 0-based position p.
C6_WireValidation ==
    (/\ last.op = "connect" /\ HasKey(cables, last.via_name)
     /\ last.err \notin PinErrors) =>
        LET cable == Get(cables, last.via_name)
            pos == WirePositions(cable, last.via_wire)
        IN  /\ Cardinality(pos) > 1 => last.err \in WireErrors
            /\ (Cardinality(pos) = 1 /\ last.err = "ok") =>
                   LastConnection(cable).via_port = I(CHOOSE q \in pos : TRUE)

(***************************************************************************)
(* Claims about create_graph.                                              *)
(***************************************************************************)
\* the last call was create_graph and it returned the graph
GraphReturned == last.op = "create_graph" /\ graph.err = "ok"

IsNode(stmt) == stmt.kind = "node"
\* a loop starts and ends on the same node
IsLoopEdge(stmt) == stmt.kind = "edge" /\ stmt.tail.name = stmt.head.name
IsWireEdge(stmt) == stmt.kind = "edge" /\ stmt.tail.name # stmt.head.name

Names(d) == [i \in 1..Len(d) |-> d[i].name]

NoSide(connector) == ~connector.ports_left /\ ~connector.ports_right

\* the connector is the from end, or the to end, of a recorded connection
IsFromEnd(name) ==
    \E i \in 1..Len(cables) : \E j \in 1..Len(cables[i].connections) :
        LET c == cables[i].connections[j]
        IN  c.from_name = name /\ c.from_port # NoneTok
IsToEnd(name) ==
    \E i \in 1..Len(cables) : \E j \in 1..Len(cables[i].connections) :
        LET c == cables[i].connections[j]
        IN  c.to_name = name /\ c.to_port # NoneTok

\* the loop edge of a connector for one of its loops, on one side
LoopEdgeOn(connector, loop, side) ==
    LET dir == IF side = "l" THEN "w" ELSE "e"
    IN  <<End(connector.name, Port("p", loop[1], side), dir),
          End(connector.name, Port("p", loop[2], side), dir)>>

RECURSIVE EdgeEndsOfConnections(_, _, _, _)
EdgeEndsOfConnections(cable, j, cs, anyStyle) ==
    IF j > Len(cable.connections) THEN <<>>
    ELSE LET c == cable.connections[j]
             PortOf(name, pin, side) ==
                 IF anyStyle \/ Get(cs, name).style # "simple"
                 THEN Port("p", pin, side) ELSE NoPort
         IN  (IF c.from_port # NoneTok
              THEN << <<End(c.from_name, PortOf(c.from_name, c.from_port, "r"), "e"),
                        End(cable.name, Port("w", c.via_port, ""), "w")>> >>
              ELSE <<>>)
             \o (IF c.to_port # NoneTok
                 THEN << <<End(cable.name, Port("w", c.via_port, ""), "e"),
                           End(c.to_name, PortOf(c.to_name, c.to_port, "l"), "w")>> >>
                 ELSE <<>>)
             \o EdgeEndsOfConnections(cable, j + 1, cs, anyStyle)

RECURSIVE EdgeEndsOfCables(_, _, _)
EdgeEndsOfCables(cbs, cs, anyStyle) ==
    IF cbs = <<>> THEN <<>>
    ELSE EdgeEndsOfConnections(Head(cbs), 1, cs, anyStyle)
             \o EdgeEndsOfCables(Tail(cbs), cs, anyStyle)

NodesOf(body) == SelectSeq(body, IsNode)
WireEdgesOf(body) == SelectSeq(body, IsWireEdge)

GraphShape(anyStyle) ==
    GraphReturned =>
        /\ Names(NodesOf(graph.body)) = Names(connectors) \o Names(cables)
        /\ LET w == WireEdgesOf(graph.body)
           IN  [k \in 1..Len(w) |-> <<w[k].tail, w[k].head>>]
                   = EdgeEndsOfCables(cables, connectors, anyStyle)

MaxComponents(cable) ==
    CHOOSE m \in 0..4 :
        /\ \A j \in 1..Len(cable.colors) : Len(Components(cable.colors[j])) <= m
        /\ \/ m = 0 /\ cable.colors = <<>>
           \/ \E j \in 1..Len(cable.colors) : Len(Components(cable.colors[j])) = m

\* C9: in the graph every wire of a cable has as many stripes as the most
\* colorful wire of that same cable has color components, and the edges of a
\* wire have the stripes of its bar.
C9_PaddingPerCable ==
    GraphReturned =>
        \A i \in 1..Len(cables) :
            LET node == CHOOSE st \in {graph.body[k] : k \in 1..Len(graph.body)} :
                            IsNode(st) /\ st.shape = "box" /\ st.name = cables[i].name
            IN  /\ \A j \in 1..Len(node.bars) :
                      Len(node.bars[j]) - 2 = MaxComponents(cables[i])
                /\ \A k \in 1..Len(graph.body) :
                      (/\ IsWireEdge(graph.body[k])
                       /\ cables[i].name \in {graph.body[k].tail.name,
                                              graph.body[k].head.name}) =>
                          LET port == IF graph.body[k].tail.name = cables[i].name
                                      THEN graph.body[k].tail.port
                                      ELSE graph.body[k].head.port
                          IN  graph.body[k].attr.color = node.bars[port.tok.v]

\* a mate edge is the only dashed edge
IsMateEdge(stmt) == stmt.kind = "edge" /\ stmt.attr.style = "dashed"
MateEdgesOf(body) == SelectSeq(body, IsMateEdge)

\* the direction a glyph stands for
GlyphDir(shape) ==
    CASE shape = "<--" -> "back"
      [] shape = "-->" -> "forward"
      [] shape = "<->" -> "both"
      [] OTHER -> "undefined"

Directions == {"back", "forward", "both"}

\* the ends of the edge of a mate: the right port of the from connector and
\* the left port of the to connector, the connector itself for style simple
MateEnds(cs, mate) ==
    <<End(mate.from_name,
          IF Get(cs, mate.from_name).style # "simple"
          THEN Port("p", mate.from_port, "r") ELSE NoPort, "e"),
      End(mate.to_name,
          IF Get(cs, mate.to_name).style # "simple"
          THEN Port("p", mate.to_port, "l") ELSE NoPort, "w")>>

\* the direction of the edge create_graph draws for the mate when it is the
\* only mate of the harness, "none" when it draws none
DirAlone(cs, cbs, mate) ==
    LET g == CreateGraph(cs, cbs, <<mate>>)
    IN  IF g.err = "ok" /\ Len(MateEdgesOf(g.body)) = 1
        THEN MateEdgesOf(g.body)[1].attr.dir ELSE "none"

EndIsSound(name, port) ==
    /\ Declared(name)
    /\ in(port, Get(connectors, name).pins)
    /\ port \in Get(connectors, name).visible_pins

\* the end of an edge is a whole node of the graph or a port cell of it
EndIsInGraph(end) ==
    \E k \in 1..Len(graph.body) :
        /\ IsNode(graph.body[k]) /\ graph.body[k].name = end.name
        /\ end.port = NoPort \/ end.port \in graph.body[k].ports

\* C12: whatever was declared and connected, in whatever order, each end
\* that is not None of every recorded connection names a declared connector
\* that has the pin among its pins and has it activated; so create_graph
\* never fails looking up a connector, and the connector end of every wire
\* edge of the graph is a cell of the connector's node.
C12_ConnectionsSound ==
    /\ \A i \in 1..Len(cables) : \A j \in 1..Len(cables[i].connections) :
          LET c == cables[i].connections[j]
          IN  /\ c.from_port # NoneTok => EndIsSound(c.from_name, c.from_port)
              /\ c.to_port # NoneTok => EndIsSound(c.to_name, c.to_port)
    /\ last.op = "create_graph" => graph.err # "KeyError"
    /\ GraphReturned =>
          \A k \in 1..Len(graph.body) :
              IsWireEdge(graph.body[k]) =>
                  /\ Declared(graph.body[k].tail.name) =>
                         EndIsInGraph(graph.body[k].tail)
                  /\ Declared(graph.body[k].head.name) =>
                         EndIsInGraph(graph.body[k].head)

(***************************************************************************)
(* Claims about bom.                                                       *)
(***************************************************************************)
\* C10: the bill of materials is generated by the first call of bom only,
\* whatever it was and whatever was declared afterwards.
C10_GeneratedOnce == bom_generated <= 1

====
